---- MODULE Spec2Model ----
(***************************************************************************)
(* AppleseedGlassMtl (appleseedglassmtl.cpp): the glass material of the    *)
(* appleseed plugin for 3ds Max.  The model covers the parameter block,    *)
(* the cached parameter snapshot with its validity interval, and the two   *)
(* translations of the snapshot into renderer entities.                    *)
(*                                                                         *)
(* Floating point values are fixed-point integers counted in 1/10000:      *)
(* 1.0 is 10000, the ior default 1.5 is 15000, a roughness of 20 is        *)
(* 200000 and 20 / 100.0f = 0.2 is 2000.                                   *)
(***************************************************************************)
EXTENDS Integers, Sequences, FiniteSets, TLC

VARIABLES
    pblock,             \* m_pblock: slot -> (time -> value), the parameter store
    m,                  \* the cached snapshot: m_surface_color ... m_bump_up_vector
    m_params_validity,  \* the cached validity interval
    edits,              \* how many times the host has written the parameter block
    call                \* report of the last completed call on the material

vars == <<pblock, m, m_params_validity, edits, call>>

-----------------------------------------------------------------------------
(* Bounds of the model.                                                    *)

\* Time values are 0..MaxTime.
MaxTime == 1
\* The host writes the parameter block at most MaxEdits times.
MaxEdits == 1
\* A loaded parameter block differs from the defaults in at most MaxLoaded slots.
MaxLoaded == 3
\* The renderer makes at most MaxCompiles create_material calls on one assembly.
MaxCompiles == 2
\* The longest chunk stream Load is given.
MaxChunks == 3

Times == 0..MaxTime

-----------------------------------------------------------------------------
(* Interval (3ds Max SDK), as the material uses it.                        *)

\* TimeValue is a 32 bit int: 0x80000000 and 0x7fffffff.
TIME_PosInfinity == 2147483647
TIME_NegInfinity == -TIME_PosInfinity - 1

Interval(s, e) == [start |-> s, end |-> e]
SetEmpty == Interval(TIME_NegInfinity, TIME_NegInfinity)
SetInfinite == Interval(TIME_NegInfinity, TIME_PosInfinity)
FOREVER == Interval(TIME_NegInfinity, TIME_PosInfinity)
Empty(iv) == iv.start = TIME_NegInfinity /\ iv.end = TIME_NegInfinity
InInterval(iv, t) == t # TIME_NegInfinity /\ iv.start <= t /\ t <= iv.end

Max2(a, b) == IF a >= b THEN a ELSE b
Min2(a, b) == IF a <= b THEN a ELSE b

\* Interval::operator&, the intersection; valid &= i is valid' = Intersect(valid, i).
Intersect(a, b) ==
    IF Empty(a) \/ Empty(b) THEN SetEmpty
    ELSE IF Max2(a.start, b.start) > Min2(a.end, b.end) THEN SetEmpty
    ELSE Interval(Max2(a.start, b.start), Min2(a.end, b.end))

-----------------------------------------------------------------------------
(* The parameter block description g_block_desc.                           *)

\* ParamId, in the order Update reads the slots.
ParamIds ==
    << "surface_color", "surface_color_texmap",
       "reflection_tint", "reflection_tint_texmap",
       "refraction_tint", "refraction_tint_texmap",
       "ior",
       "roughness", "roughness_texmap",
       "anisotropy", "anisotropy_texmap",
       "volume_color", "volume_color_texmap",
       "scale",
       "bump_method", "bump_texmap", "bump_amount", "bump_up_vector" >>

Slots == {ParamIds[i] : i \in 1..Len(ParamIds)}

ColorSlots == {"surface_color", "reflection_tint", "refraction_tint", "volume_color"}
TexmapSlots ==
    {"surface_color_texmap", "reflection_tint_texmap", "refraction_tint_texmap",
     "roughness_texmap", "anisotropy_texmap", "volume_color_texmap", "bump_texmap"}

\* The slots declared P_ANIMATABLE.
Animatable ==
    ColorSlots \cup {"ior", "roughness", "anisotropy", "scale", "bump_amount"}

\* A Texmap* is nullptr or one of the host's texture maps.
nullptr == "nullptr"
Texmaps == {"checker"}

White == <<10000, 10000, 10000>>
Grey == <<5000, 5000, 5000>>

\* p_default of every slot (a TYPE_TEXMAP slot defaults to no map).
DefaultOf(s) ==
    CASE s \in ColorSlots -> White
      [] s \in TexmapSlots -> nullptr
      [] s = "ior" -> 15000
      [] s = "roughness" -> 0
      [] s = "anisotropy" -> 0
      [] s = "scale" -> 0
      [] s = "bump_method" -> 0
      [] s = "bump_amount" -> 10000
      [] s = "bump_up_vector" -> 1

Default == [s \in Slots |-> DefaultOf(s)]

\* The values the host writes to a slot: inside p_range / p_vals.
SlotValuesOf(s) ==
    CASE s \in ColorSlots -> {White, Grey}
      [] s \in TexmapSlots -> {nullptr} \cup Texmaps
      [] s = "ior" -> {15000, 20000}
      [] s = "roughness" -> {0, 200000}
      [] s = "anisotropy" -> {0, 10000}
      [] s = "scale" -> {0, 100000}
      [] s = "bump_method" -> {0, 1}
      [] s = "bump_amount" -> {10000, 500000}
      [] s = "bump_up_vector" -> {0, 1}

SlotValues == [s \in Slots |-> SlotValuesOf(s)]

DefaultBlock == [s \in Slots |-> [t \in Times |-> Default[s]]]

\* The validity interval the store reports with the value of slot s at t:
\* the largest interval around t on which the value does not change, open
\* ended where the value stays the same up to the end of the time line.
RECURSIVE ValidFrom(_, _), ValidUntil(_, _)
ValidFrom(f, t) ==
    IF t = 0 THEN TIME_NegInfinity
    ELSE IF f[t - 1] # f[t] THEN t ELSE ValidFrom(f, t - 1)
ValidUntil(f, t) ==
    IF t = MaxTime THEN TIME_PosInfinity
    ELSE IF f[t + 1] # f[t] THEN t ELSE ValidUntil(f, t + 1)

SlotValidity(pb, s, t) == Interval(ValidFrom(pb[s], t), ValidUntil(pb[s], t))

\* m_pblock->GetValue(id, t, value, valid): the value at t, and valid
\* narrowed by the slot's own validity.
GetValue(pb, s, t, valid) ==
    [value |-> pb[s][t], valid |-> Intersect(valid, SlotValidity(pb, s, t))]

\* m_pblock->SetValue(id, t, value): a key at t when the slot is animated
\* (key), the value at all times when it is not.
SetValue(pb, s, t, v, key) ==
    [pb EXCEPT ![s] = IF key THEN [@ EXCEPT ![t] = v] ELSE [u \in Times |-> v]]

-----------------------------------------------------------------------------
(* The constructor.                                                        *)

Init ==
    /\ pblock = DefaultBlock
    /\ m = Default
    /\ m_params_validity = SetEmpty
    /\ edits = 0
    /\ call = [op |-> "AppleseedGlassMtl"]

-----------------------------------------------------------------------------
(* NotifyRefChanged and the host's edits of the parameter block.           *)

REFMSG_CHANGE == "REFMSG_CHANGE"
RefMessages == {REFMSG_CHANGE, "REFMSG_TARGET_DELETED"}

\* Not the code: a NotifyRefChanged that leaves the interval alone.
NotifyRefChangedValidity_keep(validity, message) == validity

\* The validity interval after NotifyRefChanged(message): only
\* REFMSG_CHANGE empties it.
NotifyRefChangedValidity(validity, message) ==
    IF message = REFMSG_CHANGE THEN SetEmpty ELSE validity

\* A reference message reaches the material, from any target.
NotifyRefChanged(message) ==
    /\ m_params_validity' = NotifyRefChangedValidity(m_params_validity, message)
    /\ call' = [op |-> "NotifyRefChanged", message |-> message]
    /\ UNCHANGED <<pblock, m, edits>>

\* The host (a spinner, a map button, an animation key) writes a slot of
\* the parameter block; the block sends REFMSG_CHANGE to the material, its
\* dependent, which runs NotifyRefChanged before the write returns.
ParamChanged(s, t, v, key) ==
    /\ edits < MaxEdits
    /\ key => s \in Animatable
    /\ pblock' = SetValue(pblock, s, t, v, key)
    /\ pblock' # pblock
    /\ edits' = edits + 1
    /\ m_params_validity' = NotifyRefChangedValidity(m_params_validity, REFMSG_CHANGE)
    /\ call' = [op |-> "SetValue", slot |-> s, t |-> t]
    /\ UNCHANGED m

-----------------------------------------------------------------------------
(* Update and Validity.                                                    *)

\* The GetValue lines of Update read slot ParamIds[i] into the member of
\* the same name: the members after all 18 lines.
ReadValues(pb, t) ==
    [s \in Slots |-> GetValue(pb, s, t, SetInfinite).value]

\* Not the code: the validity of the first slot read alone.
ReadValidity_first(pb, validity, i, t) ==
    GetValue(pb, ParamIds[1], t, validity).valid

RECURSIVE ReadValidity(_, _, _, _)
\* m_params_validity after the GetValue lines i..18, in source order, each
\* line narrowing the interval the line before left.
ReadValidity(pb, validity, i, t) ==
    IF i > Len(ParamIds) THEN validity
    ELSE ReadValidity(pb, GetValue(pb, ParamIds[i], t, validity).valid, i + 1, t)

\* Not the code: an Update that reads the store whatever the cached
\* interval is.
UpdateCached_reread(pb, snap, validity, t) ==
    [m |-> ReadValues(pb, t),
     validity |-> ReadValidity(pb, SetInfinite, 1, t),
     reads |-> ParamIds, notified |-> 1]

\* Update(t, valid) up to its last line: what it leaves in the members,
\* what it asks of the store (reads) and how often it calls
\* NotifyDependents (notified).
UpdateCached(pb, snap, validity, t) ==
    IF ~InInterval(validity, t)
    THEN [m |-> ReadValues(pb, t),
          validity |-> ReadValidity(pb, SetInfinite, 1, t),
          reads |-> ParamIds, notified |-> 1]
    ELSE [m |-> snap, validity |-> validity, reads |-> <<>>, notified |-> 0]

\* The intervals a caller passes in valid (Validity passes FOREVER).
CallerIntervals == {Interval(0, 0)}

\* Update(t, valid); valid &= m_params_validity is its last line.
Update(t, valid) ==
    \E r \in {UpdateCached(pblock, m, m_params_validity, t)} :
        /\ m' = r.m
        /\ m_params_validity' = r.validity
        /\ call' = [op |-> "Update", t |-> t, arg |-> valid,
                    hit |-> InInterval(m_params_validity, t),
                    reads |-> r.reads, notified |-> r.notified,
                    valid |-> Intersect(valid, r.validity)]
        /\ UNCHANGED <<pblock, edits>>

\* Validity(t): Update(t, valid) on valid = FOREVER, and valid returned.
Validity(t) ==
    \E r \in {UpdateCached(pblock, m, m_params_validity, t)} :
        /\ m' = r.m
        /\ m_params_validity' = r.validity
        /\ call' = [op |-> "Validity", t |-> t, arg |-> FOREVER,
                    hit |-> InInterval(m_params_validity, t),
                    reads |-> r.reads, notified |-> r.notified,
                    valid |-> Intersect(FOREVER, r.validity)]
        /\ UNCHANGED <<pblock, edits>>

-----------------------------------------------------------------------------
(* The renderer's entities: asr::ParamArray, asr::Assembly, ShaderGroup.   *)

\* A ParamArray maps a key to a value; a float value and a string value
\* (a literal or an entity's name) are kept apart.
Float(x) == [float |-> x]
Str(x) == [string |-> x]
EmptyParams == <<>>
\* ParamArray::insert(key, value): the value replaces an earlier one.
insert(params, key, value) == (key :> value) @@ params

EmptyAssembly ==
    [shader_groups |-> <<>>, colors |-> <<>>, bsdfs |-> <<>>,
     textures |-> <<>>, texture_instances |-> <<>>]

\* The names held by an entity container.
NamesOf(entities) == {entities[i].name : i \in 1..Len(entities)}

\* m / 100.0f on the fixed-point values.
Div100(x) == x \div 100

\* to_color3f(Color): the three channels of the 3ds Max color.
to_color3f(c) == <<c[1], c[2], c[3]>>

\* fmt_osl_expr(value): the OSL literal of a float, a color or a string.
fmt_osl_expr(type, value) == [osl |-> type, value |-> value]

RECURSIVE FirstFree(_, _, _)
FirstFree(names, prefix, i) ==
    IF prefix \o ToString(i) \in names THEN FirstFree(names, prefix, i + 1)
    ELSE prefix \o ToString(i)

\* make_unique_name(entities, name): name itself when no entity bears it,
\* else name with the first free number appended.
make_unique_name(entities, name) ==
    IF name \notin NamesOf(entities) THEN name
    ELSE FirstFree(NamesOf(entities), name \o "_", 1)

\* insert_texture_and_instance(assembly, texmap, use_max_procedural_maps,
\* time, texture_params): no entity and the empty name for no map, else a
\* texture entity of the map, an instance of it, and the instance's name.
insert_texture_and_instance(asm, texmap, use_max_procedural_maps, time, texture_params) ==
    IF texmap = nullptr
    THEN [assembly |-> asm, name |-> ""]
    ELSE LET texture_name == make_unique_name(asm.textures, texmap)
             instance_name == make_unique_name(asm.texture_instances,
                                               texture_name \o "_inst")
         IN  [assembly |->
                [asm EXCEPT
                   !.textures = Append(@, [name |-> texture_name, texmap |-> texmap,
                                           procedural |-> use_max_procedural_maps,
                                           time |-> time, params |-> texture_params]),
                   !.texture_instances = Append(@, [name |-> instance_name,
                                                    texture |-> texture_name])],
              name |-> instance_name]

\* insert_color(assembly, color, name): a color entity of that name.
insert_color(asm, color, name) ==
    [asm EXCEPT !.colors = Append(@, [name |-> name, values |-> to_color3f(color)])]

\* ShaderGroupFactory::create, add_shader and add_connection.
ShaderGroup(name) == [name |-> name, shaders |-> <<>>, connections |-> <<>>]
add_shader(group, type, shader, layer, params) ==
    [group EXCEPT !.shaders = Append(@, [type |-> type, shader |-> shader,
                                         layer |-> layer, params |-> params])]
add_connection(group, src_layer, src_param, dst_layer, dst_param) ==
    [group EXCEPT !.connections =
        Append(@, [src_layer |-> src_layer, src_param |-> src_param,
                   dst_layer |-> dst_layer, dst_param |-> dst_param])]

\* The texture node of a bound map in a shader group.
add_texture_shader(group, layer, texmap, time) ==
    add_shader(group, "shader", "as_max_texture", layer,
               insert(insert(EmptyParams, "Texmap", Str(texmap)), "Time", Float(time)))

\* connect_color_texture / connect_float_texture(shader_group,
\* material_node_name, material_input_name, texmap, constant, time): an
\* adapter node of the input, fed by the map's node when a map is bound
\* and by the constant when none is, and wired to the material's input.
connect_texture(group, adapter, type, material_node_name, material_input_name, texmap, constant, time) ==
    LET layer == material_node_name \o "_" \o material_input_name
        tex_layer == layer \o "_texture"
        g1 == IF texmap # nullptr
              THEN add_texture_shader(group, tex_layer, texmap, time)
              ELSE group
        g2 == add_shader(g1, "shader", adapter, layer,
                         insert(EmptyParams, "Constant", fmt_osl_expr(type, constant)))
        g3 == IF texmap # nullptr
              THEN add_connection(g2, tex_layer, "Out", layer, "Input")
              ELSE g2
    IN  add_connection(g3, layer, "Out", material_node_name, material_input_name)

connect_color_texture(group, material_node_name, material_input_name, texmap, const_color, time) ==
    connect_texture(group, "as_max_color_texture", "color", material_node_name,
                    material_input_name, texmap, to_color3f(const_color), time)

connect_float_texture(group, material_node_name, material_input_name, texmap, const_value, time) ==
    connect_texture(group, "as_max_float_texture", "float", material_node_name,
                    material_input_name, texmap, const_value, time)

\* connect_bump_map(shader_group, material_node_name,
\* material_normal_input_name, material_tn_input_name, texmap, amount,
\* time): the height-to-normal adapter between the map and the input.
connect_bump_map(group, material_node_name, material_normal_input_name, material_tn_input_name, texmap, amount, time) ==
    LET layer == material_node_name \o "_bump_map"
        tex_layer == layer \o "_texture"
        g1 == add_texture_shader(group, tex_layer, texmap, time)
        g2 == add_shader(g1, "shader", "as_max_bump_map", layer,
                         insert(EmptyParams, "Amount", fmt_osl_expr("float", amount)))
        g3 == add_connection(g2, tex_layer, "Out", layer, "Height")
    IN  add_connection(g3, layer, "NormalOut", material_node_name,
                       material_normal_input_name)

\* connect_normal_map(..., texmap, up_vector, amount, time): the
\* tangent-space normal map adapter between the map and the input.
connect_normal_map(group, material_node_name, material_normal_input_name, material_tn_input_name, texmap, up_vector, amount, time) ==
    LET layer == material_node_name \o "_normal_map"
        tex_layer == layer \o "_texture"
        g1 == add_texture_shader(group, tex_layer, texmap, time)
        g2 == add_shader(g1, "shader", "as_max_normal_map", layer,
                         insert(insert(EmptyParams,
                                       "UpVector", fmt_osl_expr("string",
                                           IF up_vector = 0 THEN "Green" ELSE "Blue")),
                                "Amount", fmt_osl_expr("float", amount)))
        g3 == add_connection(g2, tex_layer, "Out", layer, "Color")
    IN  add_connection(g3, layer, "NormalOut", material_node_name,
                       material_normal_input_name)

-----------------------------------------------------------------------------
(* create_osl_material: the snapshot as an OSL shader group.               *)

\* The six connect_*_texture lines.
OslInputs(group, snap, name, time) ==
    LET g1 == connect_color_texture(group, name, "SurfaceTransmittance",
                  snap["surface_color_texmap"], snap["surface_color"], time)
        g2 == connect_color_texture(g1, name, "ReflectionTint",
                  snap["reflection_tint_texmap"], snap["reflection_tint"], time)
        g3 == connect_color_texture(g2, name, "RefractionTint",
                  snap["refraction_tint_texmap"], snap["refraction_tint"], time)
        g4 == connect_color_texture(g3, name, "VolumeTransmittance",
                  snap["volume_color_texmap"], snap["volume_color"], time)
        g5 == connect_float_texture(g4, name, "Roughness",
                  snap["roughness_texmap"], Div100(snap["roughness"]), time)
    IN  connect_float_texture(g5, name, "Anisotropic",
                  snap["anisotropy_texmap"], Div100(snap["anisotropy"]), time)

\* Not the code: the bump wiring without the test of m_bump_texmap.
OslBump_unguarded(group, snap, name, time) ==
    IF snap["bump_method"] = 0
    THEN connect_bump_map(group, name, "Normal", "Tn", snap["bump_texmap"],
                          snap["bump_amount"], time)
    ELSE connect_normal_map(group, name, "Normal", "Tn", snap["bump_texmap"],
                            snap["bump_up_vector"], snap["bump_amount"], time)

\* Not the code: the bump wiring with the normal map adapter on top of the
\* bump adapter.
OslBump_both(group, snap, name, time) ==
    IF snap["bump_texmap"] # nullptr
    THEN connect_normal_map(
             connect_bump_map(group, name, "Normal", "Tn", snap["bump_texmap"],
                              snap["bump_amount"], time),
             name, "Normal", "Tn", snap["bump_texmap"],
             snap["bump_up_vector"], snap["bump_amount"], time)
    ELSE group

\* if (m_bump_texmap != nullptr): bump mapping or normal mapping.
OslBump(group, snap, name, time) ==
    IF snap["bump_texmap"] # nullptr
    THEN IF snap["bump_method"] = 0
         THEN connect_bump_map(group, name, "Normal", "Tn", snap["bump_texmap"],
                               snap["bump_amount"], time)
         ELSE connect_normal_map(group, name, "Normal", "Tn", snap["bump_texmap"],
                                 snap["bump_up_vector"], snap["bump_amount"], time)
    ELSE group

\* The parameters of the as_max_glass_material node.
OslGlassParams(snap) ==
    [SurfaceTransmittance |-> fmt_osl_expr("color", to_color3f(snap["surface_color"])),
     ReflectionTint |-> fmt_osl_expr("color", to_color3f(snap["reflection_tint"])),
     RefractionTint |-> fmt_osl_expr("color", to_color3f(snap["refraction_tint"])),
     VolumeTransmittance |-> fmt_osl_expr("color", to_color3f(snap["volume_color"])),
     Roughness |-> fmt_osl_expr("float", Div100(snap["roughness"])),
     Anisotropic |-> fmt_osl_expr("float", Div100(snap["anisotropy"])),
     Ior |-> fmt_osl_expr("float", snap["ior"]),
     VolumeTransmittanceDistance |-> fmt_osl_expr("float", snap["scale"]),
     Distribution |-> fmt_osl_expr("string", "ggx")]

\* Not the code: the material naming the group by the name asked for,
\* whatever name the group was registered under.
create_osl_material_plain(asm, snap, name, time) ==
    LET shader_group_name == make_unique_name(asm.shader_groups, name \o "_shader_group")
        g1 == OslBump(OslInputs(ShaderGroup(shader_group_name), snap, name, time),
                      snap, name, time)
        g2 == add_shader(g1, "surface", "as_max_glass_material", name,
                         OslGlassParams(snap))
        g3 == add_shader(g2, "shader", "as_max_closure2surface",
                         name \o "_closure2surface", EmptyParams)
        g4 == add_connection(g3, name, "ClosureOut", name \o "_closure2surface",
                             "in_input")
    IN  [assembly |-> [asm EXCEPT !.shader_groups = Append(@, g4)],
         material |-> [model |-> "osl_material", name |-> name,
                       params |-> insert(EmptyParams, "osl_surface",
                                         Str(name \o "_shader_group"))]]

create_osl_material(asm, snap, name, time) ==
    LET shader_group_name == make_unique_name(asm.shader_groups, name \o "_shader_group")
        g1 == OslInputs(ShaderGroup(shader_group_name), snap, name, time)
        g2 == OslBump(g1, snap, name, time)
        g3 == add_shader(g2, "surface", "as_max_glass_material", name,
                         OslGlassParams(snap))
        closure2surface_name == name \o "_closure2surface"
        g4 == add_shader(g3, "shader", "as_max_closure2surface",
                         closure2surface_name, EmptyParams)
        g5 == add_connection(g4, name, "ClosureOut", closure2surface_name, "in_input")
    IN  [assembly |-> [asm EXCEPT !.shader_groups = Append(@, g5)],
         material |-> [model |-> "osl_material", name |-> name,
                       params |-> insert(EmptyParams, "osl_surface",
                                         Str(shader_group_name))]]

-----------------------------------------------------------------------------
(* create_builtin_material: the snapshot as a glass BSDF and a material.   *)

\* Not the code: a color block that takes the constant whatever is bound.
BuiltinColor_constant(acc, key, texmap, color, name, time) ==
    [assembly |-> insert_color(acc.assembly, color, name \o "_bsdf_" \o key),
     params |-> insert(acc.params, key, Str(name \o "_bsdf_" \o key))]

\* One color block of the BSDF (surface transmittance, reflection tint,
\* refraction tint, volume transmittance): the instance of the bound map,
\* or else a color entity named after the material and the input.
BuiltinColor(acc, key, texmap, color, name, time) ==
    LET ins == insert_texture_and_instance(acc.assembly, texmap, TRUE, time, EmptyParams)
        color_name == name \o "_bsdf_" \o key
    IN  IF ins.name # ""
        THEN [assembly |-> ins.assembly,
              params |-> insert(acc.params, key, Str(ins.name))]
        ELSE [assembly |-> insert_color(ins.assembly, color, color_name),
              params |-> insert(acc.params, key, Str(color_name))]

\* Not the code: the roughness block without the division.
BuiltinRoughness_raw(acc, snap, time) ==
    LET ins == insert_texture_and_instance(acc.assembly, snap["roughness_texmap"],
                                           TRUE, time, EmptyParams)
    IN  [assembly |-> ins.assembly,
         params |-> IF ins.name # ""
                    THEN insert(acc.params, "roughness", Str(ins.name))
                    ELSE insert(acc.params, "roughness", Float(snap["roughness"]))]

\* The roughness block: the instance of the bound map, or m_roughness / 100.0f.
BuiltinRoughness(acc, snap, time) ==
    LET ins == insert_texture_and_instance(acc.assembly, snap["roughness_texmap"],
                                           TRUE, time, EmptyParams)
    IN  [assembly |-> ins.assembly,
         params |-> IF ins.name # ""
                    THEN insert(acc.params, "roughness", Str(ins.name))
                    ELSE insert(acc.params, "roughness",
                                Float(Div100(snap["roughness"])))]

\* The anisotropy block: the instance of the bound map, or m_anisotropy.
BuiltinAnisotropy(acc, snap, time) ==
    LET ins == insert_texture_and_instance(acc.assembly, snap["anisotropy_texmap"],
                                           TRUE, time, EmptyParams)
    IN  [assembly |-> ins.assembly,
         params |-> IF ins.name # ""
                    THEN insert(acc.params, "anisotropic", Str(ins.name))
                    ELSE insert(acc.params, "anisotropic", Float(snap["anisotropy"]))]

\* The BSDF block: bsdf_params, and the assembly with the entities they name.
BuiltinBsdfParams(asm, snap, name, time) ==
    LET a0 == [assembly |-> asm, params |-> insert(EmptyParams, "mdf", Str("ggx"))]
        a1 == BuiltinColor(a0, "surface_transmittance",
                           snap["surface_color_texmap"], snap["surface_color"], name, time)
        a2 == BuiltinColor(a1, "reflection_tint",
                           snap["reflection_tint_texmap"], snap["reflection_tint"], name, time)
        a3 == BuiltinColor(a2, "refraction_tint",
                           snap["refraction_tint_texmap"], snap["refraction_tint"], name, time)
        a4 == [a3 EXCEPT !.params = insert(@, "ior", Float(snap["ior"]))]
        a5 == BuiltinRoughness(a4, snap, time)
        a6 == BuiltinAnisotropy(a5, snap, time)
        a7 == [a6 EXCEPT !.params = insert(@, "volume_parameterization",
                                           Str("transmittance"))]
        a8 == BuiltinColor(a7, "volume_transmittance",
                           snap["volume_color_texmap"], snap["volume_color"], name, time)
    IN  [a8 EXCEPT !.params = insert(@, "volume_transmittance_distance",
                                     Float(snap["scale"]))]

\* Not the code: a displacement block that sets the bump parameters for
\* either method.
BuiltinDisplacement_bump(material_params, instance_name, snap) ==
    IF instance_name # ""
    THEN LET p1 == insert(material_params, "displacement_method",
                          Str(IF snap["bump_method"] = 0 THEN "bump" ELSE "normal"))
             p2 == insert(p1, "displacement_map", Str(instance_name))
         IN  insert(insert(p2, "bump_amplitude", Float(snap["bump_amount"])),
                    "bump_offset", Float(5000))
    ELSE material_params

\* The displacement block: the parameters a bound bump map adds to
\* material_params.
BuiltinDisplacement(material_params, instance_name, snap) ==
    IF instance_name # ""
    THEN LET p1 == insert(material_params, "displacement_method",
                          Str(IF snap["bump_method"] = 0 THEN "bump" ELSE "normal"))
             p2 == insert(p1, "displacement_map", Str(instance_name))
         IN  CASE snap["bump_method"] = 0 ->
                    insert(insert(p2, "bump_amplitude", Float(snap["bump_amount"])),
                           "bump_offset", Float(5000))
               [] snap["bump_method"] = 1 ->
                    insert(p2, "normal_map_up",
                           Str(IF snap["bump_up_vector"] = 0 THEN "y" ELSE "z"))
               [] OTHER -> p2
    ELSE material_params

create_builtin_material(asm, snap, name, time) ==
    LET b == BuiltinBsdfParams(asm, snap, name, time)
        bsdf_name == name \o "_bsdf"
        asm1 == [b.assembly EXCEPT !.bsdfs =
                    Append(@, [model |-> "glass_bsdf", name |-> bsdf_name,
                               params |-> b.params])]
        p0 == insert(EmptyParams, "bsdf", Str(bsdf_name))
        ins == insert_texture_and_instance(asm1, snap["bump_texmap"], TRUE, time,
                   insert(EmptyParams, "color_space", Str("linear_rgb")))
    IN  [assembly |-> ins.assembly,
         material |-> [model |-> "generic_material", name |-> name,
                       params |-> BuiltinDisplacement(p0, ins.name, snap)]]

-----------------------------------------------------------------------------
(* create_material.                                                        *)

\* The compiler create_material hands the call to.
Compiler(use_max_procedural_maps) ==
    IF use_max_procedural_maps THEN "create_builtin_material" ELSE "create_osl_material"

\* Not the code: the dispatch with the two compilers swapped.
CreateMaterial_swapped(asm, snap, name, use_max_procedural_maps, time) ==
    LET r == IF use_max_procedural_maps
             THEN create_osl_material(asm, snap, name, time)
             ELSE create_builtin_material(asm, snap, name, time)
    IN  [compilers |-> <<Compiler(~use_max_procedural_maps)>>,
         material |-> r.material, assembly |-> r.assembly]

\* create_material(assembly, name, use_max_procedural_maps, time) on the
\* members snap: the compilers it ran, in order, the material it returns
\* and the assembly it leaves.
CreateMaterial(asm, snap, name, use_max_procedural_maps, time) ==
    LET r == IF use_max_procedural_maps
             THEN create_builtin_material(asm, snap, name, time)
             ELSE create_osl_material(asm, snap, name, time)
    IN  [compilers |-> <<Compiler(use_max_procedural_maps)>>,
         material |-> r.material, assembly |-> r.assembly]

\* The material names the renderer uses.
Names == {"glass"}

\* The materials created on an assembly so far.
Compiled(asm) == Len(asm.shader_groups) + Len(asm.bsdfs)

\* The assemblies the renderer passes: a new one, or the one the call
\* before left, while the renderer is building a project.
Assemblies ==
    {EmptyAssembly} \cup
        (IF call.op = "create_material" THEN {call.assembly} ELSE {})

create_material(asm, name, use_max_procedural_maps, time) ==
    /\ Compiled(asm) < MaxCompiles
    /\ \E r \in {CreateMaterial(asm, m, name, use_max_procedural_maps, time)} :
         call' = [op |-> "create_material", name |-> name,
                  use_max_procedural_maps |-> use_max_procedural_maps,
                  time |-> time, before |-> asm,
                  compilers |-> r.compilers, material |-> r.material,
                  assembly |-> r.assembly]
    /\ UNCHANGED <<pblock, m, m_params_validity, edits>>

-----------------------------------------------------------------------------
(* The material from its construction on: the host edits the parameter    *)
(* block, reference messages arrive, the host asks for updates and the    *)
(* renderer translates the material.                                       *)

Next ==
    \/ \E s \in Slots : \E v \in SlotValues[s] :
         \/ ParamChanged(s, 0, v, FALSE)
         \/ \E t \in Times : ParamChanged(s, t, v, TRUE)
    \/ \E msg \in RefMessages : NotifyRefChanged(msg)
    \/ \E t \in Times, valid \in CallerIntervals : Update(t, valid)
    \/ \E t \in Times : Validity(t)
    \/ \E name \in Names, flag \in BOOLEAN, t \in Times :
         create_material(EmptyAssembly, name, flag, t)

Spec == Init /\ [][Next]_vars

-----------------------------------------------------------------------------
(* The material loaded from a scene file: the parameter block holds the   *)
(* saved values, the members those of the constructor.  The renderer      *)
(* updates the material and translates it, several times in a row on the  *)
(* assembly of the project it builds.                                      *)

\* The value of a slot other than its default.
Alt == [s \in Slots |-> CHOOSE v \in SlotValues[s] : v # Default[s]]

LoadedBlocks ==
    {[s \in Slots |-> [t \in Times |-> IF s \in E THEN Alt[s] ELSE Default[s]]] :
        E \in {E \in SUBSET Slots : Cardinality(E) <= MaxLoaded}}

InitLoaded ==
    /\ pblock \in LoadedBlocks
    /\ m = Default
    /\ m_params_validity = SetEmpty
    /\ edits = 0
    /\ call = [op |-> "AppleseedGlassMtl"]

NextLoaded ==
    \/ Update(0, FOREVER)
    \/ \E asm \in Assemblies, name \in Names, flag \in BOOLEAN :
         create_material(asm, name, flag, 0)

SpecLoaded == InitLoaded /\ [][NextLoaded]_vars

-----------------------------------------------------------------------------
(* What a create_material call left behind, read off the entities.        *)

IsCreate == call.op = "create_material"
IsBuiltin == IsCreate /\ call.use_max_procedural_maps
IsOsl == IsCreate /\ ~call.use_max_procedural_maps
IsUpdate == call.op \in {"Update", "Validity"}

\* The entity of a container that was inserted last under a name.
Last(entities, name) ==
    entities[CHOOSE i \in 1..Len(entities) :
                 /\ entities[i].name = name
                 /\ \A j \in (i + 1)..Len(entities) : entities[j].name # name]

\* The BSDF, the shader group and the glass node a call c inserted.
BsdfOf(c) == c.assembly.bsdfs[Len(c.assembly.bsdfs)]
GroupOf(c) == c.assembly.shader_groups[Len(c.assembly.shader_groups)]
GlassOf(c) ==
    GroupOf(c).shaders[CHOOSE i \in 1..Len(GroupOf(c).shaders) :
                           GroupOf(c).shaders[i].type = "surface"]
TheBsdf == BsdfOf(call)
TheGroup == GroupOf(call)
TheGlass == GlassOf(call)
ShadersOf(group, shader) ==
    {i \in 1..Len(group.shaders) : group.shaders[i].shader = shader}
\* The connections of the group that end in an input of a layer.
Into(group, layer, input) ==
    {i \in 1..Len(group.connections) :
        /\ group.connections[i].dst_layer = layer
        /\ group.connections[i].dst_param = input}
IntoLayer(group, layer) ==
    {i \in 1..Len(group.connections) : group.connections[i].dst_layer = layer}
LayerOf(group, layer) ==
    group.shaders[CHOOSE i \in 1..Len(group.shaders) : group.shaders[i].layer = layer]

\* The store's values at time t.
StoreAt(t) == [s \in Slots |-> pblock[s][t]]

-----------------------------------------------------------------------------
(* C1: every create_material call runs exactly one compiler, the           *)
(* fixed-function one (create_builtin_material) when use_builtin_maps is   *)
(* true and the procedural one (create_osl_material) when it is false,     *)
(* whatever the calls before it were given, and it leaves the material's   *)
(* own state (the members and the parameter block) as it was.              *)
C1_DispatchStep ==
    (call'.op = "create_material" /\ call' # call) =>
        /\ UNCHANGED <<pblock, m, m_params_validity>>
        /\ Len(call'.compilers) = 1
        /\ IF call'.use_max_procedural_maps
           THEN /\ call'.compilers[1] = "create_builtin_material"
                /\ call'.material.model = "generic_material"
                /\ Len(call'.assembly.bsdfs) = Len(call'.before.bsdfs) + 1
                /\ call'.assembly.shader_groups = call'.before.shader_groups
           ELSE /\ call'.compilers[1] = "create_osl_material"
                /\ call'.material.model = "osl_material"
                /\ Len(call'.assembly.shader_groups)
                       = Len(call'.before.shader_groups) + 1
                /\ call'.assembly.bsdfs = call'.before.bsdfs

C1_Dispatch == [][C1_DispatchStep]_vars

\* A fixed-function call on an assembly that a procedural call filled.
C1_Witness ==
    /\ IsBuiltin
    /\ Len(call.before.shader_groups) = 1
    /\ Len(call.assembly.bsdfs) = 1

-----------------------------------------------------------------------------
(* C2: the material create_material returns is built from the parameter   *)
(* store's values at time, the snapshot being refreshed first when the     *)
(* cached validity interval does not contain time.                         *)
C2_BuiltFromStore ==
    IsCreate =>
        LET r == CreateMaterial(call.before, StoreAt(call.time), call.name,
                                call.use_max_procedural_maps, call.time)
        IN  call.material = r.material /\ call.assembly = r.assembly

\* The literal index of refraction and volume distance of a call c.
IorOf(c) ==
    IF c.use_max_procedural_maps
    THEN BsdfOf(c).params["ior"].float
    ELSE GlassOf(c).params.Ior.value
ScaleOf(c) ==
    IF c.use_max_procedural_maps
    THEN BsdfOf(c).params["volume_transmittance_distance"].float
    ELSE GlassOf(c).params.VolumeTransmittanceDistance.value

\* What the code does instead: create_material leaves the cached values
\* and the cached validity interval as they are and builds the material
\* from the cached values; they are the store's values at time when the
\* cached validity interval contains time.
C2_CachedStep ==
    (call'.op = "create_material" /\ call' # call) =>
        /\ UNCHANGED <<pblock, m, m_params_validity>>
        /\ IorOf(call') = m["ior"]
        /\ ScaleOf(call') = m["scale"]
        /\ InInterval(m_params_validity, call'.time) =>
              LET r == CreateMaterial(call'.before, StoreAt(call'.time), call'.name,
                                      call'.use_max_procedural_maps, call'.time)
              IN  call'.material = r.material /\ call'.assembly = r.assembly

C2_BuiltFromCache == [][C2_CachedStep]_vars

\* A call at a time outside the cached validity interval, with a store
\* value that the cached snapshot does not have.
C2_Stale ==
    /\ IsCreate
    /\ ~InInterval(m_params_validity, call.time)
    /\ pblock["ior"][call.time] # m["ior"]
    /\ IorOf(call) = m["ior"]

-----------------------------------------------------------------------------
(* C3: Update(t) on a cached validity interval that contains t asks the    *)
(* store for no slot, leaves every cached value and the cached interval    *)
(* as they are and sends no change notification; an Update(t) that follows *)
(* an Update(t) with nothing in between is such a call.                    *)
C3_HitStep ==
    LET updates == call'.op \in {"Update", "Validity"} /\ call' # call
        again == call.op \in {"Update", "Validity"} /\ call'.t = call.t
    IN  /\ (updates /\ InInterval(m_params_validity, call'.t)) =>
              /\ call'.hit
              /\ call'.reads = <<>>
              /\ call'.notified = 0
              /\ UNCHANGED <<pblock, m, m_params_validity>>
        /\ (updates /\ again) =>
              /\ InInterval(m_params_validity, call'.t)
              /\ call'.notified = 0
              /\ call.notified + call'.notified <= 1
              /\ UNCHANGED <<m, m_params_validity>>

C3_Idempotent == [][C3_HitStep]_vars

\* An Update that found its time in the cached interval of a snapshot
\* that an earlier call had read from edited parameters.
C3_Witness ==
    /\ IsUpdate
    /\ call.hit
    /\ call.notified = 0
    /\ m # Default
    /\ m = StoreAt(call.t)

-----------------------------------------------------------------------------
(* C4: Update(t) on a cached validity interval that does not contain t     *)
(* reads all 18 slots at t, caches every value read, leaves the            *)
(* intersection of the 18 slots' validity intervals as the cached          *)
(* interval and signals the change once; the interval handed back is the   *)
(* caller's interval intersected with the cached one.                      *)
MaxOf(S) == CHOOSE x \in S : \A y \in S : y <= x
MinOf(S) == CHOOSE x \in S : \A y \in S : x <= y

\* The intersection of the slots' validity intervals at t, all of which
\* contain t.
CommonValidity(t) ==
    Interval(MaxOf({SlotValidity(pblock, s, t).start : s \in Slots}),
             MinOf({SlotValidity(pblock, s, t).end : s \in Slots}))

\* The caller's interval cut down to the cached one.
CutTo(arg, validity) ==
    IF arg.start > validity.end \/ validity.start > arg.end
    THEN SetEmpty
    ELSE Interval(MaxOf({arg.start, validity.start}), MinOf({arg.end, validity.end}))

C4_Miss ==
    (IsUpdate /\ ~call.hit) =>
        /\ Len(call.reads) = 18
        /\ {call.reads[i] : i \in 1..Len(call.reads)} = Slots
        /\ \A s \in Slots : m[s] = pblock[s][call.t]
        /\ m_params_validity = CommonValidity(call.t)
        /\ InInterval(m_params_validity, call.t)
        /\ call.notified = 1
        /\ call.valid = CutTo(call.arg, m_params_validity)

\* A miss on an animated parameter: the cached interval is that of the
\* key, and the caller's interval does not reach it.
C4_Witness ==
    /\ IsUpdate
    /\ ~call.hit
    /\ call.t = 1
    /\ m_params_validity = Interval(1, TIME_PosInfinity)
    /\ m # Default
    /\ call.arg = Interval(0, 0)
    /\ call.valid = SetEmpty

-----------------------------------------------------------------------------
(* The six inputs of the glass model: the texture slot and the constant   *)
(* of each, its key in the BSDF and its pin on the glass node.             *)
Inputs ==
    { [texmap |-> "surface_color_texmap", constant |-> "surface_color",
       key |-> "surface_transmittance", pin |-> "SurfaceTransmittance"],
      [texmap |-> "reflection_tint_texmap", constant |-> "reflection_tint",
       key |-> "reflection_tint", pin |-> "ReflectionTint"],
      [texmap |-> "refraction_tint_texmap", constant |-> "refraction_tint",
       key |-> "refraction_tint", pin |-> "RefractionTint"],
      [texmap |-> "volume_color_texmap", constant |-> "volume_color",
       key |-> "volume_transmittance", pin |-> "VolumeTransmittance"],
      [texmap |-> "roughness_texmap", constant |-> "roughness",
       key |-> "roughness", pin |-> "Roughness"],
      [texmap |-> "anisotropy_texmap", constant |-> "anisotropy",
       key |-> "anisotropic", pin |-> "Anisotropic"] }
ColorInputs == {in \in Inputs : in.constant \in ColorSlots}
FloatInputs == Inputs \ ColorInputs

\* The entities the call added to a container.
Added(c, container) ==
    (Len(c.before[container]) + 1)..Len(c.assembly[container])

\* The map a texture instance name of the call's assembly stands for.
IsInstanceOf(c, instance_name, texmap) ==
    \E i \in Added(c, "texture_instances"), j \in Added(c, "textures") :
        /\ c.assembly.texture_instances[i].name = instance_name
        /\ c.assembly.texture_instances[i].texture = c.assembly.textures[j].name
        /\ c.assembly.textures[j].texmap = texmap

\* The layers of the group that feed an input of a layer.
SourcesOf(group, layer, input) ==
    {group.connections[i].src_layer : i \in Into(group, layer, input)}

\* The adapter of a pin of the glass node: the one layer wired to it.
AdapterOf(c, pin) ==
    LayerOf(GroupOf(c), CHOOSE l \in SourcesOf(GroupOf(c), c.name, pin) : TRUE)

\* The adapter is fed by a texture node of the map.
FedBy(group, adapter, texmap) ==
    /\ Cardinality(IntoLayer(group, adapter.layer)) = 1
    /\ \E l \in SourcesOf(group, adapter.layer, "Input") :
          /\ LayerOf(group, l).shader = "as_max_texture"
          /\ LayerOf(group, l).params["Texmap"] = Str(texmap)

(* C5: in both compilers, an input with a texture bound to its slot refers *)
(* to that texture, whatever the constant is; one with no texture bound    *)
(* takes the constant, and the compilation yields a material.              *)
C5_Builtin(in) ==
    LET ref == TheBsdf.params[in.key]
    IN  IF m[in.texmap] # nullptr
        THEN /\ DOMAIN ref = {"string"}
             /\ IsInstanceOf(call, ref.string, m[in.texmap])
             /\ ref.string \notin NamesOf(call.assembly.colors)
        ELSE IF in \in ColorInputs
             THEN /\ DOMAIN ref = {"string"}
                  /\ ref.string \in NamesOf(call.assembly.colors)
                  /\ ~\E i \in Added(call, "texture_instances") :
                        call.assembly.texture_instances[i].name = ref.string
             ELSE DOMAIN ref = {"float"}

C5_Osl(in) ==
    /\ Cardinality(Into(TheGroup, call.name, in.pin)) = 1
    /\ Cardinality(SourcesOf(TheGroup, call.name, in.pin)) = 1
    /\ LET adapter == AdapterOf(call, in.pin)
       IN  /\ adapter.shader = IF in \in ColorInputs THEN "as_max_color_texture"
                               ELSE "as_max_float_texture"
           /\ IF m[in.texmap] # nullptr
              THEN FedBy(TheGroup, adapter, m[in.texmap])
              ELSE /\ IntoLayer(TheGroup, adapter.layer) = {}
                   /\ "Constant" \in DOMAIN adapter.params

C5_TextureBeatsConstant ==
    /\ IsBuiltin =>
          /\ call.material.model = "generic_material"
          /\ \A in \in Inputs : C5_Builtin(in)
    /\ IsOsl =>
          /\ call.material.model = "osl_material"
          /\ \A in \in Inputs : C5_Osl(in)

\* The fixed-function compiler after the procedural one on one snapshot
\* with a texture on the surface color, a constant other than the default
\* under it, and no texture on the roughness.
C5_Witness ==
    /\ IsBuiltin
    /\ Len(call.before.shader_groups) = 1
    /\ m["surface_color_texmap"] # nullptr
    /\ m["surface_color"] = Grey
    /\ m["roughness_texmap"] = nullptr
    /\ IsInstanceOf(call, TheBsdf.params["surface_transmittance"].string, "checker")
    /\ SourcesOf(call.before.shader_groups[1], call.name, "SurfaceTransmittance") # {}

-----------------------------------------------------------------------------
\* No texture is bound to any slot of the snapshot.
NoTextures == \A s \in TexmapSlots : m[s] = nullptr

\* The color entity a BSDF parameter names.
ColorOf(c, key) == Last(c.assembly.colors, BsdfOf(c).params[key].string).values

(* C6: with no texture bound, the constants of the compiled material are   *)
(* the snapshot's: the four colors, the index of refraction and the scale  *)
(* as they are, the roughness divided by 100 in both compilers, the        *)
(* anisotropy divided by 100 in the procedural one and as it is in the     *)
(* fixed-function one.                                                     *)
C6_Builtin ==
    /\ \A in \in ColorInputs : ColorOf(call, in.key) = m[in.constant]
    /\ TheBsdf.params["ior"] = Float(m["ior"])
    /\ TheBsdf.params["volume_transmittance_distance"] = Float(m["scale"])
    /\ 100 * TheBsdf.params["roughness"].float = m["roughness"]
    /\ TheBsdf.params["anisotropic"].float = m["anisotropy"]

C6_Osl ==
    /\ \A in \in ColorInputs :
          /\ TheGlass.params[in.pin] = [osl |-> "color", value |-> m[in.constant]]
          /\ AdapterOf(call, in.pin).params["Constant"] =
                [osl |-> "color", value |-> m[in.constant]]
    /\ TheGlass.params.Ior = [osl |-> "float", value |-> m["ior"]]
    /\ TheGlass.params.VolumeTransmittanceDistance =
          [osl |-> "float", value |-> m["scale"]]
    /\ \A in \in FloatInputs :
          /\ TheGlass.params[in.pin].osl = "float"
          /\ 100 * TheGlass.params[in.pin].value = m[in.constant]
          /\ AdapterOf(call, in.pin).params["Constant"] = TheGlass.params[in.pin]

C6_Constants ==
    /\ (IsBuiltin /\ NoTextures) => C6_Builtin
    /\ (IsOsl /\ NoTextures) => C6_Osl

\* Roughness 20 and anisotropy 1 through both compilers: 0.20 and 0.01 in
\* the shader group, 0.20 and 1 in the BSDF.
C6_Witness ==
    /\ IsBuiltin
    /\ NoTextures
    /\ Len(call.before.shader_groups) = 1
    /\ m["roughness"] = 200000
    /\ m["anisotropy"] = 10000
    /\ TheBsdf.params["roughness"] = Float(2000)
    /\ TheBsdf.params["anisotropic"] = Float(10000)
    /\ LET glass == LayerOf(call.before.shader_groups[1], call.name)
       IN  glass.params.Roughness.value = 2000 /\ glass.params.Anisotropic.value = 100

-----------------------------------------------------------------------------
(* C7: in both compilers the roughness constant given to the backend is    *)
(* the stored roughness / 100 and the anisotropy constant is the stored    *)
(* anisotropy / 100.                                                       *)
C7_BothRescaled ==
    /\ (IsBuiltin /\ m["roughness_texmap"] = nullptr) =>
          100 * TheBsdf.params["roughness"].float = m["roughness"]
    /\ (IsBuiltin /\ m["anisotropy_texmap"] = nullptr) =>
          100 * TheBsdf.params["anisotropic"].float = m["anisotropy"]
    /\ IsOsl =>
          /\ 100 * TheGlass.params.Roughness.value = m["roughness"]
          /\ 100 * TheGlass.params.Anisotropic.value = m["anisotropy"]
          /\ 100 * AdapterOf(call, "Roughness").params["Constant"].value = m["roughness"]
          /\ 100 * AdapterOf(call, "Anisotropic").params["Constant"].value = m["anisotropy"]

\* The fixed-function compiler on anisotropy 1 with no anisotropy texture:
\* the BSDF's anisotropic is 1, not 0.01.
C7_Witness ==
    /\ IsBuiltin
    /\ m["anisotropy_texmap"] = nullptr
    /\ m["anisotropy"] = 10000
    /\ TheBsdf.params["anisotropic"] = Float(10000)
    /\ TheBsdf.params["anisotropic"] # Float(100)

-----------------------------------------------------------------------------
DisplacementKeys ==
    {"displacement_method", "displacement_map", "bump_amplitude", "bump_offset",
     "normal_map_up"}

\* The bump and the normal map adapters of a shader group.
BumpAdapters(group) == ShadersOf(group, "as_max_bump_map")
NormalAdapters(group) == ShadersOf(group, "as_max_normal_map")

(* C8: with no bump texture bound, neither compiler emits displacement     *)
(* wiring, whatever bump_method, bump_amount and bump_up_vector are: no    *)
(* bump or normal map adapter and no connection into the glass node's      *)
(* Normal pin in the shader group, none of the displacement parameters on  *)
(* the fixed-function material.                                            *)
C8_NoDisplacement ==
    /\ (IsOsl /\ m["bump_texmap"] = nullptr) =>
          /\ BumpAdapters(TheGroup) = {}
          /\ NormalAdapters(TheGroup) = {}
          /\ Into(TheGroup, call.name, "Normal") = {}
          /\ Into(TheGroup, call.name, "Tn") = {}
    /\ (IsBuiltin /\ m["bump_texmap"] = nullptr) =>
          /\ DOMAIN call.material.params \cap DisplacementKeys = {}
          /\ DOMAIN call.material.params = {"bsdf"}

\* Both compilers on a snapshot with normal mapping chosen, an amount and
\* an up vector other than the defaults, and no bump texture.
C8_Witness ==
    /\ IsOsl
    /\ Len(call.before.bsdfs) = 1
    /\ m["bump_texmap"] = nullptr
    /\ m["bump_method"] = 1
    /\ m["bump_amount"] = 500000
    /\ m["bump_up_vector"] = 0
    /\ Len(TheGroup.shaders) = 8

-----------------------------------------------------------------------------
\* The texture behind the displacement map of the call's material.
DisplacementTexture(c) ==
    LET inst == CHOOSE i \in Added(c, "texture_instances") :
                    c.assembly.texture_instances[i].name =
                        c.material.params["displacement_map"].string
    IN  Last(c.assembly.textures, c.assembly.texture_instances[inst].texture)

(* C9: the fixed-function compiler with a bump texture bound instantiates  *)
(* the texture in linear color space and sets displacement_map to the      *)
(* instance; bump mapping gives displacement_method "bump", bump_amplitude *)
(* = bump_amount, bump_offset = 0.5 and no normal_map_up; normal mapping   *)
(* gives displacement_method "normal" and normal_map_up "y" or "z" after   *)
(* bump_up_vector, and neither bump_amplitude nor bump_offset.             *)
C9_BuiltinBump ==
    (IsBuiltin /\ m["bump_texmap"] # nullptr) =>
        LET p == call.material.params
        IN  /\ "displacement_map" \in DOMAIN p
            /\ \E i \in Added(call, "texture_instances") :
                  call.assembly.texture_instances[i].name = p["displacement_map"].string
            /\ DisplacementTexture(call).texmap = m["bump_texmap"]
            /\ DisplacementTexture(call).params = ("color_space" :> Str("linear_rgb"))
            /\ IF m["bump_method"] = 0
               THEN /\ DOMAIN p = {"bsdf", "displacement_method", "displacement_map",
                                   "bump_amplitude", "bump_offset"}
                    /\ p["displacement_method"] = Str("bump")
                    /\ p["bump_amplitude"] = Float(m["bump_amount"])
                    /\ p["bump_offset"] = Float(5000)
               ELSE /\ DOMAIN p = {"bsdf", "displacement_method", "displacement_map",
                                   "normal_map_up"}
                    /\ p["displacement_method"] = Str("normal")
                    /\ p["normal_map_up"] =
                          Str(IF m["bump_up_vector"] = 0 THEN "y" ELSE "z")

\* Normal mapping with Y up on a bound bump texture.
C9_Witness ==
    /\ IsBuiltin
    /\ m["bump_texmap"] = "checker"
    /\ m["bump_method"] = 1
    /\ m["bump_up_vector"] = 0
    /\ call.material.params["normal_map_up"] = Str("y")
    /\ call.material.params["displacement_method"] = Str("normal")

\* Bump mapping with amount 50 on a bound bump texture.
C9_WitnessBump ==
    /\ IsBuiltin
    /\ m["bump_texmap"] = "checker"
    /\ m["bump_method"] = 0
    /\ m["bump_amount"] = 500000
    /\ call.material.params["bump_amplitude"] = Float(500000)
    /\ call.material.params["bump_offset"] = Float(5000)

-----------------------------------------------------------------------------
(* C10: the procedural compiler with a bump texture bound wires exactly    *)
(* one adapter from the bump texture into the glass node's Normal input,   *)
(* never both kinds: the bump adapter with bump_amount for bump mapping,   *)
(* the normal map adapter with bump_up_vector and bump_amount for normal   *)
(* mapping.                                                                *)
C10_OslBump ==
    (IsOsl /\ m["bump_texmap"] # nullptr) =>
        /\ Cardinality(BumpAdapters(TheGroup) \cup NormalAdapters(TheGroup)) = 1
        /\ Cardinality(Into(TheGroup, call.name, "Normal")) = 1
        /\ LET adapter == AdapterOf(call, "Normal")
           IN  /\ Cardinality(IntoLayer(TheGroup, adapter.layer)) = 1
               /\ \E i \in IntoLayer(TheGroup, adapter.layer) :
                     LET tex == LayerOf(TheGroup, TheGroup.connections[i].src_layer)
                     IN  /\ tex.shader = "as_max_texture"
                         /\ tex.params["Texmap"] = Str(m["bump_texmap"])
               /\ adapter.params["Amount"] = [osl |-> "float", value |-> m["bump_amount"]]
               /\ IF m["bump_method"] = 0
                  THEN /\ adapter.shader = "as_max_bump_map"
                       /\ DOMAIN adapter.params = {"Amount"}
                  ELSE /\ adapter.shader = "as_max_normal_map"
                       /\ DOMAIN adapter.params = {"UpVector", "Amount"}
                       /\ adapter.params["UpVector"].value =
                             IF m["bump_up_vector"] = 0 THEN "Green" ELSE "Blue"

\* Normal mapping with Y up and amount 50 on a bound bump texture.
C10_Witness ==
    /\ IsOsl
    /\ m["bump_texmap"] = "checker"
    /\ m["bump_method"] = 1
    /\ m["bump_amount"] = 500000
    /\ NormalAdapters(TheGroup) # {}
    /\ BumpAdapters(TheGroup) = {}

-----------------------------------------------------------------------------
(* create_material statement by statement: the activation record of the   *)
(* running compiler (its locals, and the assembly as it stands) after each *)
(* statement, for what the assembly holds between two statements.          *)

\* The six connect_*_texture lines, one at a time (lines 665-670).
OslInput(group, snap, name, time, i) ==
    CASE i = 1 -> connect_color_texture(group, name, "SurfaceTransmittance",
                      snap["surface_color_texmap"], snap["surface_color"], time)
      [] i = 2 -> connect_color_texture(group, name, "ReflectionTint",
                      snap["reflection_tint_texmap"], snap["reflection_tint"], time)
      [] i = 3 -> connect_color_texture(group, name, "RefractionTint",
                      snap["refraction_tint_texmap"], snap["refraction_tint"], time)
      [] i = 4 -> connect_color_texture(group, name, "VolumeTransmittance",
                      snap["volume_color_texmap"], snap["volume_color"], time)
      [] i = 5 -> connect_float_texture(group, name, "Roughness",
                      snap["roughness_texmap"], Div100(snap["roughness"]), time)
      [] i = 6 -> connect_float_texture(group, name, "Anisotropic",
                      snap["anisotropy_texmap"], Div100(snap["anisotropy"]), time)

\* create_osl_material up to its first connect line: the locals
\* shader_group_name and shader_group, no material yet.
OslEntry(asm, name) ==
    [assembly |-> asm,
     shader_group_name |-> make_unique_name(asm.shader_groups, name \o "_shader_group"),
     shader_group |-> ShaderGroup(make_unique_name(asm.shader_groups,
                                                   name \o "_shader_group")),
     material_params |-> EmptyParams,
     material |-> <<>>]

\* Statement k of create_osl_material on the activation record f.
OslLast == 12
OslStatement(f, snap, name, time, k) ==
    CASE k \in 1..6 ->
           [f EXCEPT !.shader_group = OslInput(@, snap, name, time, k)]
      [] k = 7 -> [f EXCEPT !.shader_group = OslBump(@, snap, name, time)]
      [] k = 8 -> [f EXCEPT !.shader_group =
                      add_shader(@, "surface", "as_max_glass_material", name,
                                 OslGlassParams(snap))]
      [] k = 9 -> [f EXCEPT !.shader_group =
                      add_shader(@, "shader", "as_max_closure2surface",
                                 name \o "_closure2surface", EmptyParams)]
      [] k = 10 -> [f EXCEPT !.shader_group =
                      add_connection(@, name, "ClosureOut",
                                     name \o "_closure2surface", "in_input")]
      [] k = 11 -> [f EXCEPT !.assembly.shader_groups = Append(@, f.shader_group)]
      [] k = 12 -> [f EXCEPT
                      !.material_params = insert(@, "osl_surface",
                                                 Str(f.shader_group_name)),
                      !.material = <<[model |-> "osl_material", name |-> name,
                                      params |-> insert(f.material_params, "osl_surface",
                                                        Str(f.shader_group_name))]>>]

\* create_builtin_material up to its first block: the locals
\* material_params, instance_name and bsdf_params.
BuiltinEntry(asm) ==
    [assembly |-> asm,
     material_params |-> EmptyParams,
     instance_name |-> "",
     bsdf_params |-> insert(EmptyParams, "mdf", Str("ggx")),
     material |-> <<>>]

\* The BSDF block's accumulator as a part of the activation record.
Acc(f) == [assembly |-> f.assembly, params |-> f.bsdf_params]
WithAcc(f, acc) == [f EXCEPT !.assembly = acc.assembly, !.bsdf_params = acc.params]

\* Block b of create_builtin_material on the activation record f.
BuiltinBlock(f, snap, name, time, b) ==
    CASE b = 1 -> WithAcc(f, BuiltinColor(Acc(f), "surface_transmittance",
                      snap["surface_color_texmap"], snap["surface_color"], name, time))
      [] b = 2 -> WithAcc(f, BuiltinColor(Acc(f), "reflection_tint",
                      snap["reflection_tint_texmap"], snap["reflection_tint"], name, time))
      [] b = 3 -> WithAcc(f, BuiltinColor(Acc(f), "refraction_tint",
                      snap["refraction_tint_texmap"], snap["refraction_tint"], name, time))
      [] b = 4 -> [f EXCEPT !.bsdf_params = insert(@, "ior", Float(snap["ior"]))]
      [] b = 5 -> WithAcc(f, BuiltinRoughness(Acc(f), snap, time))
      [] b = 6 -> WithAcc(f, BuiltinAnisotropy(Acc(f), snap, time))
      [] b = 7 -> [f EXCEPT !.bsdf_params = insert(@, "volume_parameterization",
                                                   Str("transmittance"))]
      [] b = 8 -> WithAcc(f, BuiltinColor(Acc(f), "volume_transmittance",
                      snap["volume_color_texmap"], snap["volume_color"], name, time))
      [] b = 9 -> [f EXCEPT !.bsdf_params = insert(@, "volume_transmittance_distance",
                                                   Float(snap["scale"]))]
      [] b = 10 -> [f EXCEPT
                      !.assembly.bsdfs =
                          Append(@, [model |-> "glass_bsdf", name |-> name \o "_bsdf",
                                     params |-> f.bsdf_params]),
                      !.material_params = insert(@, "bsdf", Str(name \o "_bsdf"))]
      [] b = 11 -> LET ins == insert_texture_and_instance(f.assembly, snap["bump_texmap"],
                                  TRUE, time,
                                  insert(EmptyParams, "color_space", Str("linear_rgb")))
                   IN  [f EXCEPT !.assembly = ins.assembly, !.instance_name = ins.name]
      [] b = 12 -> [f EXCEPT !.material_params =
                                 BuiltinDisplacement(@, f.instance_name, snap)]
      [] b = 13 -> [f EXCEPT !.material =
                      <<[model |-> "generic_material", name |-> name,
                         params |-> f.material_params]>>]

\* Not the code: the BSDF registered before the volume transmittance block.
BuiltinLast == 13
BuiltinStatement_early(f, snap, name, time, k) ==
    BuiltinBlock(f, snap, name, time,
                 IF k = 8 THEN 10 ELSE IF k = 9 THEN 8 ELSE IF k = 10 THEN 9 ELSE k)

\* Statement k of create_builtin_material, in source order.
BuiltinStatement(f, snap, name, time, k) == BuiltinBlock(f, snap, name, time, k)

\* The last statement of either compiler.
LastOf(use_max_procedural_maps) ==
    IF use_max_procedural_maps THEN BuiltinLast ELSE OslLast

\* A compiler is between two of its statements.
Compiling == call.op = "compile" /\ call.pc < LastOf(call.use_max_procedural_maps)

\* create_material is called: the compiler's activation record at entry.
Enter(asm, name, use_max_procedural_maps, time) ==
    /\ ~Compiling
    /\ call' = [op |-> "compile", name |-> name,
                use_max_procedural_maps |-> use_max_procedural_maps,
                time |-> time, before |-> asm, pc |-> 0,
                frame |-> IF use_max_procedural_maps THEN BuiltinEntry(asm)
                          ELSE OslEntry(asm, name)]
    /\ UNCHANGED <<pblock, m, m_params_validity, edits>>

\* The running compiler executes its next statement.
Statement ==
    /\ Compiling
    /\ call' = [call EXCEPT
                  !.pc = @ + 1,
                  !.frame = IF call.use_max_procedural_maps
                            THEN BuiltinStatement(@, m, call.name, call.time, call.pc + 1)
                            ELSE OslStatement(@, m, call.name, call.time, call.pc + 1)]
    /\ UNCHANGED <<pblock, m, m_params_validity, edits>>

\* The assemblies the renderer passes: a new one, or the one the compiler
\* that just returned has left.
Scenes ==
    {EmptyAssembly} \cup
        (IF call.op = "compile" /\ ~Compiling THEN {call.frame.assembly} ELSE {})

\* The loaded material, updated by the host and translated by the
\* renderer, the translation seen statement by statement (single-threaded:
\* nothing else runs while a compiler does; the renderer updates a material
\* before it translates it).
NextSteps ==
    \/ ~Compiling /\ Update(0, FOREVER)
    \/ \E asm \in Scenes, name \in Names, flag \in BOOLEAN :
         /\ ~Empty(m_params_validity)
         /\ Compiled(asm) < MaxCompiles
         /\ Enter(asm, name, flag, 0)
    \/ Statement

SpecSteps == InitLoaded /\ [][NextSteps]_vars

-----------------------------------------------------------------------------
\* The parameters of a BSDF that name an entity of the assembly.
References(params) ==
    {params[k].string : k \in {k \in DOMAIN params \cap {in.key : in \in Inputs} :
                                   DOMAIN params[k] = {"string"}}}

\* The layers a shader group holds.
LayersOf(group) == {group.shaders[i].layer : i \in 1..Len(group.shaders)}

\* Every object the assembly holds names only objects the assembly holds,
\* and holds all of its inputs.
Resolved(asm) ==
    /\ \A i \in 1..Len(asm.texture_instances) :
          asm.texture_instances[i].texture \in NamesOf(asm.textures)
    /\ \A i \in 1..Len(asm.bsdfs) :
          /\ {in.key : in \in Inputs} \subseteq DOMAIN asm.bsdfs[i].params
          /\ References(asm.bsdfs[i].params) \subseteq
                NamesOf(asm.colors) \cup NamesOf(asm.texture_instances)
    /\ \A i \in 1..Len(asm.shader_groups) :
          LET group == asm.shader_groups[i]
          IN  /\ \A j \in 1..Len(group.connections) :
                    /\ group.connections[j].src_layer \in LayersOf(group)
                    /\ group.connections[j].dst_layer \in LayersOf(group)
              /\ ShadersOf(group, "as_max_glass_material") # {}
              /\ ShadersOf(group, "as_max_closure2surface") # {}

\* The material an activation record holds names only objects the
\* assembly holds.
MaterialResolved(f) ==
    \A i \in 1..Len(f.material) :
        LET p == f.material[i].params
        IN  /\ "bsdf" \in DOMAIN p => p["bsdf"].string \in NamesOf(f.assembly.bsdfs)
            /\ "displacement_map" \in DOMAIN p =>
                  p["displacement_map"].string \in NamesOf(f.assembly.texture_instances)
            /\ "osl_surface" \in DOMAIN p =>
                  p["osl_surface"].string \in NamesOf(f.assembly.shader_groups)

(* C11: between any two statements of a create_material call, every        *)
(* object registered in the assembly names only registered objects and is  *)
(* complete: the shader group is inserted after its adapters, the glass    *)
(* node, the closure-to-surface node and all connections were added, the   *)
(* BSDF after every color and texture instance it names, the material is   *)
(* created after the BSDF or the group it names was inserted; what is      *)
(* registered is what the call returns with.                               *)
C11_Ordered ==
    call.op = "compile" =>
        LET f == call.frame
            r == CreateMaterial(call.before, m, call.name,
                                call.use_max_procedural_maps, call.time)
        IN  /\ Resolved(f.assembly)
            /\ MaterialResolved(f)
            /\ IF call.use_max_procedural_maps
               THEN /\ f.assembly.shader_groups = call.before.shader_groups
                    /\ Len(f.assembly.bsdfs) =
                          Len(call.before.bsdfs) + (IF call.pc >= 10 THEN 1 ELSE 0)
                    /\ call.pc >= 10 =>
                          f.assembly.bsdfs = r.assembly.bsdfs
                    /\ Len(f.material) = IF call.pc >= 13 THEN 1 ELSE 0
               ELSE /\ f.assembly.bsdfs = call.before.bsdfs
                    /\ Len(f.assembly.shader_groups) =
                          Len(call.before.shader_groups) + (IF call.pc >= 11 THEN 1 ELSE 0)
                    /\ call.pc >= 11 =>
                          /\ f.assembly.shader_groups = r.assembly.shader_groups
                          /\ f.shader_group = f.assembly.shader_groups[
                                                  Len(f.assembly.shader_groups)]
                    /\ Len(f.material) = IF call.pc >= 12 THEN 1 ELSE 0
            /\ ~Compiling =>
                  /\ f.assembly = r.assembly
                  /\ f.material = <<r.material>>

\* The fixed-function compiler between the insertion of the BSDF and the
\* creation of the material, on an assembly an earlier call has filled:
\* the BSDF names a texture instance and a color, both registered.
C11_Witness ==
    /\ call.op = "compile"
    /\ call.use_max_procedural_maps
    /\ call.pc = 10
    /\ call.before # EmptyAssembly
    /\ m["surface_color_texmap"] # nullptr
    /\ m["volume_color_texmap"] = nullptr
    /\ Len(call.frame.material) = 0
    /\ Len(call.frame.assembly.bsdfs) = Len(call.before.bsdfs) + 1

\* The procedural compiler with its group complete and not yet inserted.
C11_WitnessOsl ==
    /\ call.op = "compile"
    /\ ~call.use_max_procedural_maps
    /\ call.pc = 10
    /\ m["bump_texmap"] # nullptr
    /\ Len(call.frame.shader_group.connections) >= 8
    /\ call.frame.assembly = call.before

-----------------------------------------------------------------------------
\* No two entities of a container bear the same name.
Unique(entities) ==
    \A i, j \in 1..Len(entities) : entities[i].name = entities[j].name => i = j

(* C12: after any sequence of create_material calls on one assembly, in    *)
(* either mode and also with one material name used again, no two shader   *)
(* groups, no two colors and no two BSDFs of the assembly bear the same    *)
(* name.                                                                   *)
C12_UniqueNames ==
    IsCreate =>
        /\ Unique(call.assembly.shader_groups)
        /\ Unique(call.assembly.colors)
        /\ Unique(call.assembly.bsdfs)

\* The part that holds: the shader groups, named by make_unique_name.
C12_GroupsUnique ==
    IsCreate => Unique(call.assembly.shader_groups)

\* The fixed-function compiler run twice on one assembly under one name:
\* two BSDFs named alike, and colors named alike.
C12_Witness ==
    /\ IsBuiltin
    /\ Len(call.before.bsdfs) = 1
    /\ Len(call.assembly.bsdfs) = 2
    /\ call.assembly.bsdfs[1].name = call.assembly.bsdfs[2].name
    /\ ~Unique(call.assembly.colors)

\* The procedural compiler run twice on one assembly under one name: the
\* second group is given a name of its own.
C12_WitnessGroups ==
    /\ IsOsl
    /\ Len(call.assembly.shader_groups) = 2
    /\ call.assembly.shader_groups[1].name = "glass_shader_group"
    /\ call.assembly.shader_groups[2].name = "glass_shader_group_1"

-----------------------------------------------------------------------------
\* The positions of the nodes of a layer name in a group.
NodesAt(group, layer) ==
    {i \in 1..Len(group.shaders) : group.shaders[i].layer = layer}

\* The connections of a group that start at an output of a layer.
OutOf(group, layer, output) ==
    {i \in 1..Len(group.connections) :
        /\ group.connections[i].src_layer = layer
        /\ group.connections[i].src_param = output}

(* C13: every procedural compile leaves a shader group with exactly one    *)
(* glass surface node, named after the material, with Distribution "ggx",  *)
(* exactly one closure-to-surface node named <name>_closure2surface added  *)
(* after it, and exactly one connection, from the glass node's ClosureOut  *)
(* to that node's in_input; the material's only parameter is osl_surface,  *)
(* the name under which the group was registered in the assembly.          *)
C13_Group ==
    IsOsl =>
        LET group == TheGroup
            glass == {i \in 1..Len(group.shaders) : group.shaders[i].type = "surface"}
            c2s == ShadersOf(group, "as_max_closure2surface")
            closure2surface_name == call.name \o "_closure2surface"
        IN  /\ Cardinality(glass) = 1
            /\ glass = ShadersOf(group, "as_max_glass_material")
            /\ glass = NodesAt(group, call.name)
            /\ TheGlass.params.Distribution = [osl |-> "string", value |-> "ggx"]
            /\ Cardinality(c2s) = 1
            /\ c2s = NodesAt(group, closure2surface_name)
            /\ \A i \in glass, j \in c2s : i < j
            /\ Cardinality(OutOf(group, call.name, "ClosureOut")) = 1
            /\ OutOf(group, call.name, "ClosureOut") =
                  Into(group, closure2surface_name, "in_input")
            /\ IntoLayer(group, closure2surface_name) =
                  Into(group, closure2surface_name, "in_input")
            /\ call.material.model = "osl_material"
            /\ call.material.name = call.name
            /\ DOMAIN call.material.params = {"osl_surface"}
            /\ call.material.params["osl_surface"] = Str(group.name)
            /\ group.name \notin NamesOf(call.before.shader_groups)
            /\ Len(call.assembly.shader_groups) = Len(call.before.shader_groups) + 1

\* A second procedural compile under one material name, with textures and
\* a bump map: the group is registered under a name of its own and the
\* material names that one.
C13_Witness ==
    /\ IsOsl
    /\ Len(call.before.shader_groups) = 1
    /\ m["surface_color_texmap"] # nullptr
    /\ m["bump_texmap"] # nullptr
    /\ TheGroup.name = "glass_shader_group_1"
    /\ call.material.params["osl_surface"] = Str("glass_shader_group_1")
    /\ Len(TheGroup.shaders) = 11

-----------------------------------------------------------------------------
(* Save and Load: the material's chunks in the scene file.                 *)

IO_OK == "IO_OK"
IO_END == "IO_END"
IO_ERROR == "IO_ERROR"

\* The chunk ids of the material, and one that is not the material's.
ChunkFileFormatVersion == "ChunkFileFormatVersion"
ChunkMtlBase == "ChunkMtlBase"
ChunkIds == {ChunkFileFormatVersion, ChunkMtlBase, "ChunkOther"}

\* The version tag, a USHORT.
FileFormatVersion == 1
USHORT_Max == 65535

\* write(isave, value) of a USHORT: its two bytes, low byte first;
\* read<USHORT>(iload, &value): the value of two bytes.
write(value) == <<(value % (USHORT_Max + 1)) % 256, (value % (USHORT_Max + 1)) \div 256>>
read(data) == data[1] + 256 * data[2]

\* What a chunk holds.
DataOf(id) ==
    IF id = ChunkFileFormatVersion THEN write(FileFormatVersion) ELSE <<>>

\* Load is between two of its statements.
Loading == call.op = "Load" /\ call.pc # "return"

\* Not the code: a Save that reports success when either write succeeded.
SaveTo_either(write_ok, base_ok) ==
    [stream |-> <<[id |-> ChunkFileFormatVersion, fails |-> "none",
                   data |-> IF write_ok THEN write(FileFormatVersion) ELSE <<>>,
                   whole |-> write_ok],
                  [id |-> ChunkMtlBase, fails |-> "none", data |-> <<>>,
                   whole |-> base_ok]>>,
     log |-> <<"BeginChunk", "write", "EndChunk", "BeginChunk", "MtlBase::Save",
               "EndChunk">>,
     result |-> IF write_ok \/ base_ok THEN IO_OK ELSE IO_ERROR]

\* Save(isave): write_ok and base_ok are what write() and MtlBase::Save
\* answer.  The chunks written (a failed write leaves its chunk without
\* data), the calls made on isave, and the result.
SaveTo(write_ok, base_ok) ==
    [stream |-> <<[id |-> ChunkFileFormatVersion, fails |-> "none",
                   data |-> IF write_ok THEN write(FileFormatVersion) ELSE <<>>,
                   whole |-> write_ok],
                  [id |-> ChunkMtlBase, fails |-> "none", data |-> <<>>,
                   whole |-> base_ok]>>,
     log |-> <<"BeginChunk", "write", "EndChunk", "BeginChunk", "MtlBase::Save",
               "EndChunk">>,
     result |-> IF write_ok /\ base_ok THEN IO_OK ELSE IO_ERROR]

Save(write_ok, base_ok) ==
    /\ ~Loading
    /\ \E r \in {SaveTo(write_ok, base_ok)} :
         call' = [op |-> "Save", write_ok |-> write_ok, base_ok |-> base_ok,
                  stream |-> r.stream, log |-> r.log, result |-> r.result]
    /\ UNCHANGED <<pblock, m, m_params_validity, edits>>

\* The chunks Load may meet: of any id, and where the operations on it
\* begin to fail (an unknown chunk has no body that is read).
Chunks ==
    {[id |-> id, fails |-> f, data |-> DataOf(id), whole |-> TRUE] :
        id \in ChunkIds, f \in {"none", "OpenChunk", "body", "CloseChunk"}}
    \ {[id |-> "ChunkOther", fails |-> "body", data |-> <<>>, whole |-> TRUE]}

Streams == UNION {[1..n -> Chunks] : n \in 0..MaxChunks}

\* The streams Load is given, on a material just constructed: any stream
\* of a scene file, or the one a Save that reported success has written.
Loadable ==
    CASE call.op = "AppleseedGlassMtl" -> Streams
      [] call.op = "Save" -> IF call.result = IO_OK THEN {call.stream} ELSE {}
      [] OTHER -> {}

\* Load(iload) is called: before the first OpenChunk.
LoadBegin(stream) ==
    /\ ~Loading
    /\ call' = [op |-> "Load", stream |-> stream,
                saved |-> call.op = "Save" /\ stream = call.stream,
                pc |-> "OpenChunk", opened |-> 0, result |-> IO_OK,
                log |-> <<>>, versions |-> <<>>]
    /\ UNCHANGED <<pblock, m, m_params_validity, edits>>

\* result = iload->OpenChunk(): IO_END after the last chunk.
OpenChunk(stream, opened) ==
    IF opened = Len(stream) THEN IO_END
    ELSE IF stream[opened + 1].fails = "OpenChunk" THEN IO_ERROR ELSE IO_OK

LoadOpenChunk ==
    /\ call.op = "Load" /\ call.pc = "OpenChunk"
    /\ \E result \in {OpenChunk(call.stream, call.opened)} :
         call' = IF result = IO_END
                 THEN [call EXCEPT !.pc = "return", !.result = IO_OK]
                 ELSE IF result # IO_OK
                 THEN [call EXCEPT !.pc = "return", !.result = result,
                                   !.log = Append(@, <<"OpenChunk", call.opened + 1>>)]
                 ELSE [call EXCEPT !.pc = "switch", !.result = result,
                                   !.opened = @ + 1,
                                   !.log = Append(@, <<"OpenChunk", call.opened + 1>>)]
    /\ UNCHANGED <<pblock, m, m_params_validity, edits>>

\* Not the code: a Load that gives up at a chunk it does not know.
LoadSwitch_strict ==
    /\ call.op = "Load" /\ call.pc = "switch"
    /\ LET chunk == call.stream[call.opened]
           result == IF chunk.fails = "body" THEN IO_ERROR ELSE IO_OK
       IN  call' =
             CASE chunk.id = ChunkFileFormatVersion ->
                    [call EXCEPT
                       !.result = result,
                       !.pc = IF result # IO_OK THEN "return" ELSE "CloseChunk",
                       !.log = Append(@, <<"read", call.opened>>),
                       !.versions = IF result = IO_OK THEN Append(@, read(chunk.data))
                                    ELSE @]
               [] chunk.id = ChunkMtlBase ->
                    [call EXCEPT
                       !.result = result,
                       !.pc = IF result # IO_OK THEN "return" ELSE "CloseChunk",
                       !.log = Append(@, <<"MtlBase::Load", call.opened>>)]
               [] OTHER -> [call EXCEPT !.pc = "return", !.result = IO_ERROR]
    /\ UNCHANGED <<pblock, m, m_params_validity, edits>>

\* switch (iload->CurChunkID()): the version is read, the base class loads
\* its state, any other chunk is left alone; then if (result != IO_OK) break.
LoadSwitch ==
    /\ call.op = "Load" /\ call.pc = "switch"
    /\ LET chunk == call.stream[call.opened]
           result == IF chunk.fails = "body" THEN IO_ERROR ELSE IO_OK
       IN  call' =
             CASE chunk.id = ChunkFileFormatVersion ->
                    [call EXCEPT
                       !.result = result,
                       !.pc = IF result # IO_OK THEN "return" ELSE "CloseChunk",
                       !.log = Append(@, <<"read", call.opened>>),
                       !.versions = IF result = IO_OK THEN Append(@, read(chunk.data))
                                    ELSE @]
               [] chunk.id = ChunkMtlBase ->
                    [call EXCEPT
                       !.result = result,
                       !.pc = IF result # IO_OK THEN "return" ELSE "CloseChunk",
                       !.log = Append(@, <<"MtlBase::Load", call.opened>>)]
               [] OTHER -> [call EXCEPT !.pc = "CloseChunk"]
    /\ UNCHANGED <<pblock, m, m_params_validity, edits>>

\* result = iload->CloseChunk(); if (result != IO_OK) break.
LoadCloseChunk ==
    /\ call.op = "Load" /\ call.pc = "CloseChunk"
    /\ LET result == IF call.stream[call.opened].fails = "CloseChunk"
                     THEN IO_ERROR ELSE IO_OK
       IN  call' = [call EXCEPT
                      !.result = result,
                      !.pc = IF result # IO_OK THEN "return" ELSE "OpenChunk",
                      !.log = Append(@, <<"CloseChunk", call.opened>>)]
    /\ UNCHANGED <<pblock, m, m_params_validity, edits>>

\* The constructed material saved and loaded.
NextIO ==
    \/ \E write_ok, base_ok \in BOOLEAN : Save(write_ok, base_ok)
    \/ \E stream \in Loadable : LoadBegin(stream)
    \/ LoadOpenChunk
    \/ LoadSwitch
    \/ LoadCloseChunk

SpecIO == Init /\ [][NextIO]_vars

-----------------------------------------------------------------------------
IsLoad == call.op = "Load"
Returned == IsLoad /\ call.pc = "return"

\* Every operation on every chunk of the stream succeeds.
AllSucceed(stream) == \A i \in 1..Len(stream) : stream[i].fails = "none"

\* What is done to chunk i of a stream when nothing fails: it is opened,
\* interpreted if it is the version chunk or the base-state chunk, closed.
WholeChunk(stream, i) ==
    <<<<"OpenChunk", i>>>>
    \o (IF stream[i].id = ChunkFileFormatVersion THEN <<<<"read", i>>>>
        ELSE IF stream[i].id = ChunkMtlBase THEN <<<<"MtlBase::Load", i>>>>
        ELSE <<>>)
    \o <<<<"CloseChunk", i>>>>

RECURSIVE WholeChunks(_, _)
\* The same for the chunks 1..n, in order.
WholeChunks(stream, n) ==
    IF n = 0 THEN <<>> ELSE WholeChunks(stream, n - 1) \o WholeChunk(stream, n)

\* The first sequence is the beginning of the second.
IsPrefix(a, b) == Len(a) <= Len(b) /\ a = SubSeq(b, 1, Len(a))

(* C14: when every open, read and close succeeds, Load opens and closes a  *)
(* chunk that is neither the version chunk nor the base-state chunk        *)
(* without interpreting it, goes on to every later chunk in order and      *)
(* returns success at the end of the stream; the version tag read from a   *)
(* stream that Save wrote is the tag Save wrote.                           *)
C14_SkipsUnknown ==
    /\ (IsLoad /\ AllSucceed(call.stream)) =>
          /\ IsPrefix(call.log, WholeChunks(call.stream, Len(call.stream)))
          /\ call.pc = "return" =>
                /\ call.result = IO_OK
                /\ call.opened = Len(call.stream)
                /\ call.log = WholeChunks(call.stream, Len(call.stream))
    /\ (Returned /\ call.saved) =>
          /\ call.result = IO_OK
          /\ call.versions = <<FileFormatVersion>>

\* A stream that begins with a chunk of another id: it is opened and
\* closed, the version and the base state behind it are read.
C14_Witness ==
    /\ Returned
    /\ Len(call.stream) = 3
    /\ call.stream[1].id = "ChunkOther"
    /\ call.stream[2].id = ChunkFileFormatVersion
    /\ call.stream[3].id = ChunkMtlBase
    /\ call.result = IO_OK
    /\ call.log = << <<"OpenChunk", 1>>, <<"CloseChunk", 1>>,
                     <<"OpenChunk", 2>>, <<"read", 2>>, <<"CloseChunk", 2>>,
                     <<"OpenChunk", 3>>, <<"MtlBase::Load", 3>>, <<"CloseChunk", 3>> >>
    /\ call.versions = <<FileFormatVersion>>

\* The stream of a Save read back.
C14_WitnessSaved ==
    /\ Returned
    /\ call.saved
    /\ call.versions = <<1>>

-----------------------------------------------------------------------------
\* The chunks of a stream with a failing operation.
Failing(stream) == {i \in 1..Len(stream) : stream[i].fails # "none"}

\* What is done to a chunk whose operation fails: nothing after it.
BrokenChunk(stream, i) ==
    CASE stream[i].fails = "OpenChunk" -> << <<"OpenChunk", i>> >>
      [] stream[i].fails = "body" ->
            << <<"OpenChunk", i>>,
               <<IF stream[i].id = ChunkFileFormatVersion THEN "read"
                 ELSE "MtlBase::Load", i>> >>
      [] stream[i].fails = "CloseChunk" -> WholeChunk(stream, i)

C15_WitnessSave ==
    /\ call.op = "Save"
    /\ ~call.write_ok
    /\ call.base_ok
    /\ call.result = IO_ERROR

-----------------------------------------------------------------------------
(* The material in the material editor: SetDiffuse, SetSubTexmap, Reset.   *)

\* g_texmap_id_to_param_id: the slot of sub-texmap i (i counts from 0).
g_texmap_id_to_param_id ==
    <<"surface_color_texmap", "reflection_tint_texmap", "refraction_tint_texmap",
      "roughness_texmap", "anisotropy_texmap", "volume_color_texmap", "bump_texmap">>
TexmapCount == Len(g_texmap_id_to_param_id)

\* SetDiffuse(c, t): the color goes to the parameter block, which tells
\* the material of the write (REFMSG_CHANGE) before SetValue returns, and
\* then to m_surface_color.  key: the host is in animate mode.
SetDiffuse(c, t, key) ==
    /\ edits < MaxEdits
    /\ pblock' = SetValue(pblock, "surface_color", t, c, key)
    /\ edits' = edits + 1
    /\ m_params_validity' = NotifyRefChangedValidity(m_params_validity, REFMSG_CHANGE)
    /\ m' = [m EXCEPT !["surface_color"] = c]
    /\ call' = [op |-> "SetDiffuse", c |-> c, t |-> t]

\* GetDiffuse(): the cached surface color.
GetDiffuse == m["surface_color"]

\* SetSubTexmap(i, texmap): the map goes to the slot of sub-texmap i at
\* time 0; the block tells the material of the write.
SetSubTexmap(i, texmap) ==
    /\ edits < MaxEdits
    /\ pblock' = SetValue(pblock, g_texmap_id_to_param_id[i + 1], 0, texmap, FALSE)
    /\ edits' = edits + 1
    /\ m_params_validity' = NotifyRefChangedValidity(m_params_validity, REFMSG_CHANGE)
    /\ call' = [op |-> "SetSubTexmap", i |-> i, texmap |-> texmap]
    /\ UNCHANGED m

\* Reset(): the class descriptor puts the parameter block back to its
\* defaults, then m_params_validity.SetEmpty().  The reset is not one of the
\* host's writes that edits counts.
Reset ==
    /\ pblock' = DefaultBlock
    /\ edits' = edits
    /\ m_params_validity' = SetEmpty
    /\ call' = [op |-> "Reset"]
    /\ UNCHANGED m

NextEditor ==
    \/ \E s \in Slots : \E v \in SlotValues[s] :
         \/ ParamChanged(s, 0, v, FALSE)
         \/ \E t \in Times : ParamChanged(s, t, v, TRUE)
    \/ \E msg \in RefMessages : NotifyRefChanged(msg)
    \/ \E t \in Times, valid \in CallerIntervals : Update(t, valid)
    \/ \E t \in Times : Validity(t)
    \/ \E c \in SlotValues["surface_color"], t \in Times, key \in BOOLEAN :
         SetDiffuse(c, t, key)
    \/ \E i \in 0..(TexmapCount - 1), texmap \in Texmaps \cup {nullptr} :
         SetSubTexmap(i, texmap)
    \/ Reset

SpecEditor == Init /\ [][NextEditor]_vars

-----------------------------------------------------------------------------
\* Every cached value is the store's at every time of the cached interval.
Coherent ==
    \A t \in Times :
        InInterval(m_params_validity, t) => \A s \in Slots : m[s] = pblock[s][t]

(* C16: with every write of the parameter store delivered as               *)
(* REFMSG_CHANGE, after any sequence of Update, SetDiffuse, SetSubTexmap,  *)
(* Reset and notifications the cached values are the store's at every      *)
(* time of the cached validity interval: the constructor, Reset and every  *)
(* REFMSG_CHANGE leave the interval empty, so that the next Update reads   *)
(* all slots again, any other message leaves it as it is, and SetDiffuse   *)
(* puts the color into the slot and into the cache, where GetDiffuse       *)
(* finds it at once.                                                       *)
C16_Step ==
    /\ Coherent'
    /\ call.op = "AppleseedGlassMtl" => Empty(m_params_validity)
    /\ call'.op = "Reset" => Empty(m_params_validity')
    /\ call'.op \in {"SetValue", "SetSubTexmap", "SetDiffuse"} =>
          Empty(m_params_validity')
    /\ call'.op = "NotifyRefChanged" =>
          IF call'.message = REFMSG_CHANGE THEN Empty(m_params_validity')
          ELSE m_params_validity' = m_params_validity
    /\ (Empty(m_params_validity) /\ call'.op \in {"Update", "Validity"}) =>
          /\ ~call'.hit
          /\ Len(call'.reads) = 18
          /\ \A s \in Slots : m'[s] = pblock[s][call'.t]
    /\ call'.op = "SetDiffuse" =>
          /\ pblock'["surface_color"][call'.t] = call'.c
          /\ GetDiffuse' = call'.c

C16_WitnessSetDiffuse ==
    /\ call.op = "SetDiffuse"
    /\ call.c = Grey
    /\ GetDiffuse = Grey
    /\ m["ior"] = pblock["ior"][0]
    /\ Empty(m_params_validity)

====
